---- MODULE Spec2Model ----
(***************************************************************************)
(* Model of the mekon-cli terminal dashboard (src/src/commands/dashboard.py)*)
(* and of the panel providers it calls (src/src/core/collectors.py).        *)
(*                                                                         *)
(* Three specifications share the module:                                  *)
(*   LayoutSpec  applies the pure function _build_layout to inputs drawn    *)
(*               from a bounded set of integers and provider outcomes;      *)
(*   Spec        is one run of the dash command: the foreground render loop *)
(*               and the daemon key listener interleaved statement by       *)
(*               statement over the shared dict `state` and the terminal;   *)
(*   FairSpec    is Spec with weak fairness on the foreground thread.       *)
(***************************************************************************)
EXTENDS Integers, Sequences, FiniteSets, TLC

(***************************************************************************)
(* Bounds of the model.                                                    *)
(***************************************************************************)
\* --refresh values tried: 0..MaxRefresh seconds
MaxRefresh == 1
\* _build_layout is applied to every integer in -MaxFocusArg .. 4 + MaxFocusArg
MaxFocusArg == 2
\* the longest character sequence the simulated reader holds
MaxKeys == 3
\* the longest activity log, in lines
MaxLog == 3
\* the longest recipe, in steps
MaxSteps == 3
\* the longest ledger, in transactions
MaxLedger == 3

(***************************************************************************)
(* Program constants.                                                      *)
(***************************************************************************)
\* range(refresh * 10): sleep increments per second of refresh interval
TicksPerSecond == 10

(***************************************************************************)
(* Panel providers (collectors.py).  A provider's outcome in the model is   *)
(* "ok" (its body ran to the normal return) or "error" (an exception was    *)
(* raised inside its outer try and caught by `except Exception`).           *)
(***************************************************************************)
Outcomes == {"ok", "error"}

\* rich.panel.Panel(renderable, title=..., border_style=..., style=...)
Panel(renderable, title, border_style, style) ==
  [renderable |-> renderable, title |-> title,
   border_style |-> border_style, style |-> style]

collect_devops(outcome) ==
  IF outcome = "ok"
    THEN Panel("table:Platform/Status/Info", "[1] DevOps", "blue", "none")
    ELSE Panel("[dim]Unable to collect DevOps data[/dim]", "[1] DevOps", "red", "none")

collect_revenue(outcome) ==
  IF outcome = "ok"
    THEN Panel("revenue summary", "[2] Revenue", "green", "none")
    ELSE Panel("[dim]Unable to load revenue data[/dim]", "[2] Revenue", "red", "none")

collect_agents(outcome) ==
  IF outcome = "ok"
    THEN Panel("agent health lines", "[3] Agents", "magenta", "none")
    ELSE Panel("[dim]Unable to check agents[/dim]", "[3] Agents", "red", "none")

collect_system(outcome) ==
  IF outcome = "ok"
    THEN Panel("table:Tool/Status/Version", "[4] System", "cyan", "none")
    ELSE Panel("[dim]Unable to check system[/dim]", "[4] System", "red", "none")

Providers == {"collect_devops", "collect_revenue", "collect_agents",
              "collect_system"}

\* the outcomes of the four providers during one build
Envs == [Providers -> Outcomes]

\* calling provider p in environment env
invoke(p, env) ==
  CASE p = "collect_devops" -> collect_devops(env[p])
    [] p = "collect_revenue" -> collect_revenue(env[p])
    [] p = "collect_agents" -> collect_agents(env[p])
    [] p = "collect_system" -> collect_system(env[p])

(***************************************************************************)
(* Inside a provider: what its probes meet, which exceptions they raise     *)
(* and which try statement catches them.                                    *)
(***************************************************************************)
\* what one subprocess.run(..., timeout=3) meets: the tool runs and exits
\* with 0 or with another code, is not installed, does not answer in time,
\* or may not be executed
ToolOutcomes == {"ok", "nonzero", "missing", "timeout", "denied"}

\* the exception subprocess.run raises
RunRaises(o) ==
  CASE o = "missing" -> "FileNotFoundError"
    [] o = "timeout" -> "TimeoutExpired"
    [] o = "denied" -> "PermissionError"
    [] OTHER -> "none"

\* get_config(): the settings load, or the .env file cannot be decoded
ConfigOutcomes == {"ok", "undecodable"}

ConfigRaises(o) == IF o = "undecodable" THEN "UnicodeDecodeError" ELSE "none"

\* ledger.json: not there, a list of transactions, an empty list, not
\* readable, not JSON, or JSON that is no list of objects
LedgerStates == {"absent", "valid", "empty", "unreadable", "malformed",
                 "notlist"}

\* the exception lines 88-110 raise
LedgerRaises(l) ==
  CASE l = "unreadable" -> "PermissionError"
    [] l = "malformed" -> "JSONDecodeError"
    [] l = "notlist" -> "AttributeError"
    [] OTHER -> "none"

\* the exception classes above; each derives from Exception
Exceptions == {"FileNotFoundError", "TimeoutExpired", "PermissionError",
               "UnicodeDecodeError", "JSONDecodeError", "AttributeError"}

\* a plausible slip in the inner handlers: `except FileNotFoundError`
InnerCatchesNotFound(exc) == exc = "FileNotFoundError"

\* `except (FileNotFoundError, subprocess.TimeoutExpired)`
InnerCatches(exc) == exc \in {"FileNotFoundError", "TimeoutExpired"}

\* a plausible slip in the outer handlers: `except OSError`
OuterCatchesOSError(exc) ==
  exc \in {"FileNotFoundError", "TimeoutExpired", "PermissionError"}

\* `except Exception`
OuterCatches(exc) == exc \in Exceptions

\* the exception of one probe that its inner try lets through ("none": none)
Escaping(o) ==
  IF RunRaises(o) # "none" /\ ~InnerCatches(RunRaises(o))
    THEN RunRaises(o) ELSE "none"

\* the first exception a sequence of probes lets through
RECURSIVE FirstEscape(_)
FirstEscape(os) ==
  IF os = << >> THEN "none"
  ELSE IF Escaping(Head(os)) # "none" THEN Escaping(Head(os))
  ELSE FirstEscape(Tail(os))

\* lines 30-46 (the working tree is clean in the model; the return code of
\* git is not looked at)
git_row(o) ==
  IF InnerCatches(RunRaises(o))
    THEN << "Git", "[dim]n/a[/dim]" >>
    ELSE << "Git", "[green]clean[/green]" >>

\* lines 49-56
vercel_row(o) ==
  IF InnerCatches(RunRaises(o))
    THEN << "Vercel", "[dim]not found[/dim]" >>
    ELSE << "Vercel", "[green]installed[/green]" >>

\* lines 59-67
docker_row(o) ==
  IF InnerCatches(RunRaises(o))
    THEN << "Docker", "[dim]not found[/dim]" >>
    ELSE << "Docker", "[green]running[/green]" >>

\* lines 160-171
check_row(name, o) ==
  IF InnerCatches(RunRaises(o)) THEN << name, "[dim]n/a[/dim]" >>
  ELSE IF o = "ok" THEN << name, "[green]OK[/green]" >>
  ELSE << name, "[yellow]err[/yellow]" >>

\* lines 81-86
NoTransactions ==
  Panel("[dim]No transactions yet[/dim]", "[2] Revenue", "green", "none")

\* no panel: the call did not return
NoPanel == Panel("none", "", "none", "none")

\* what a provider hands back: the exception that left it ("none": none),
\* the panel, and the rows of the panel's table
Result(raised, panel, rows) ==
  [raised |-> raised, panel |-> panel, rows |-> rows]

\* the outer try statement of a provider: exc left the body, or the body
\* returned `normal`
guard(exc, normal, rows, degraded) ==
  IF exc = "none" THEN Result("none", normal, rows)
  ELSE IF OuterCatches(exc) THEN Result("none", degraded, << >>)
  ELSE Result(exc, NoPanel, << >>)

\* the worlds each provider is called in
Worlds(p) ==
  CASE p = "collect_devops" ->
         [git : ToolOutcomes, vercel : ToolOutcomes, docker : ToolOutcomes]
    [] p = "collect_system" ->
         [python3 : ToolOutcomes, git : ToolOutcomes, node : ToolOutcomes]
    [] p = "collect_revenue" ->
         [config : ConfigOutcomes, ledger : LedgerStates]
    [] p = "collect_agents" ->
         [config : ConfigOutcomes, mekong_ok : BOOLEAN, has_key : BOOLEAN,
          data_ok : BOOLEAN]

\* calling provider p in world w
call(p, w) ==
  CASE p = "collect_devops" ->
         guard(FirstEscape(<< w.git, w.vercel, w.docker >>),
               collect_devops("ok"),
               << git_row(w.git), vercel_row(w.vercel),
                  docker_row(w.docker) >>,
               collect_devops("error"))
    [] p = "collect_system" ->
         guard(FirstEscape(<< w.python3, w.git, w.node >>),
               collect_system("ok"),
               << check_row("Python", w.python3), check_row("Git", w.git),
                  check_row("Node", w.node) >>,
               collect_system("error"))
    [] p = "collect_revenue" ->
         guard(IF ConfigRaises(w.config) # "none" THEN ConfigRaises(w.config)
               ELSE LedgerRaises(w.ledger),
               IF w.ledger = "absent" THEN NoTransactions
               ELSE collect_revenue("ok"),
               << >>,
               collect_revenue("error"))
    [] p = "collect_agents" ->
         guard(ConfigRaises(w.config),
               collect_agents("ok"),
               << << "Engine", IF w.mekong_ok THEN "[green]available[/green]"
                               ELSE "[red]missing[/red]" >>,
                  << "LLM API", IF w.has_key THEN "[green]configured[/green]"
                                ELSE "[yellow]no key[/yellow]" >>,
                  << "Data", IF w.data_ok THEN "[green]exists[/green]"
                             ELSE "[dim]not created[/dim]" >> >>,
               collect_agents("error"))

\* a plausible slip in lines 80-86: the missing ledger created, empty, as
\* `revenue add` would
afterCreatesLedger(p, w) ==
  IF p = "collect_revenue" /\ w.config = "ok" /\ w.ledger = "absent"
    THEN [w EXCEPT !.ledger = "empty"] ELSE w

\* the world a call of provider p leaves behind: the providers only read
\* (subprocess queries, exists(), read_text()) and write nothing
after(p, w) == w

\* the keys of the dict `panels` of _build_layout
PanelKeys == 1..4

\* a plausible slip in the dict: entries 2 and 3 exchanged
panelsSwapped(k) ==
  CASE k = 1 -> "collect_devops"
    [] k = 2 -> "collect_agents"
    [] k = 3 -> "collect_revenue"
    [] k = 4 -> "collect_system"

\* the dict `panels` of _build_layout: index -> provider
panels(k) ==
  CASE k = 1 -> "collect_devops"
    [] k = 2 -> "collect_revenue"
    [] k = 3 -> "collect_agents"
    [] k = 4 -> "collect_system"

(***************************************************************************)
(* rich.layout.Layout as a tree of named regions.                          *)
(***************************************************************************)
Placeholder == Panel("placeholder", "", "none", "none")

\* Layout(name=..., ratio=..., size=...)
Layout(name, ratio, size) ==
  [name |-> name, ratio |-> ratio, size |-> size,
   splitter |-> "none", children |-> <<>>, renderable |-> Placeholder]

\* Layout.split_column(*layouts)
split_column(node, layouts) ==
  [node EXCEPT !.splitter = "column", !.children = layouts]

\* Layout.split_row(*layouts)
split_row(node, layouts) ==
  [node EXCEPT !.splitter = "row", !.children = layouts]

\* layout[name].update(renderable): the region called name gets the renderable
RECURSIVE update(_, _, _)
update(node, name, renderable) ==
  IF node.name = name
    THEN [node EXCEPT !.renderable = renderable]
    ELSE [node EXCEPT !.children =
            [k \in DOMAIN node.children |->
               update(node.children[k], name, renderable)]]

\* layout[name].split_row(...)
RECURSIVE split_row_at(_, _, _)
split_row_at(node, name, layouts) ==
  IF node.name = name
    THEN split_row(node, layouts)
    ELSE [node EXCEPT !.children =
            [k \in DOMAIN node.children |->
               split_row_at(node.children[k], name, layouts)]]

FocusFooter(focused) ==
  Panel("q Quit  r Refresh  0 Grid view  1-4 Focus panel  Viewing: "
          \o ToString(focused), "", "none", "dim")

GridFooter ==
  Panel("q Quit  r Refresh  1-4 Focus panel  Auto-refresh active",
        "", "none", "dim")

\* a _build_layout in progress: the tree so far and the providers called so
\* far, in call order
Building(layout) == [layout |-> layout, calls |-> <<>>]

\* layout[region].update(panels[k]()): call the provider, put its panel in
fill(acc, region, k, env) ==
  [layout |-> update(acc.layout, region, invoke(panels(k), env)),
   calls |-> Append(acc.calls, panels(k))]

Returned(acc) == [raised |-> FALSE, layout |-> acc.layout, calls |-> acc.calls]
Raised(acc) == [raised |-> TRUE, layout |-> Layout("none", 0, 0), calls |-> acc.calls]

\* lines 39-51: one panel above the footer
FocusedLayout(focused, env) ==
  LET l0 == split_column(Layout("root", 1, 0),
                         << Layout("main", 8, 0), Layout("footer", 1, 3) >>)
      a1 == fill(Building(l0), "main", focused, env)
      a2 == [a1 EXCEPT !.layout = update(a1.layout, "footer", FocusFooter(focused))]
  IN  Returned(a2)

\* a plausible slip in lines 69-72: revenue and agents filled the other way round
GridLayoutSwapped(env) ==
  LET l0 == split_column(Layout("root", 1, 0),
                         << Layout("top", 4, 0), Layout("bottom", 4, 0),
                            Layout("footer", 1, 3) >>)
      l1 == split_row_at(l0, "top",
                         << Layout("devops", 1, 0), Layout("revenue", 1, 0) >>)
      l2 == split_row_at(l1, "bottom",
                         << Layout("agents", 1, 0), Layout("system", 1, 0) >>)
      a1 == fill(Building(l2), "devops", 1, env)
      a2 == fill(a1, "agents", 2, env)
      a3 == fill(a2, "revenue", 3, env)
      a4 == fill(a3, "system", 4, env)
      a5 == [a4 EXCEPT !.layout = update(a4.layout, "footer", GridFooter)]
  IN  Returned(a5)

\* lines 54-81: the 2x2 grid above the footer
GridLayout(env) ==
  LET l0 == split_column(Layout("root", 1, 0),
                         << Layout("top", 4, 0), Layout("bottom", 4, 0),
                            Layout("footer", 1, 3) >>)
      l1 == split_row_at(l0, "top",
                         << Layout("devops", 1, 0), Layout("revenue", 1, 0) >>)
      l2 == split_row_at(l1, "bottom",
                         << Layout("agents", 1, 0), Layout("system", 1, 0) >>)
      a1 == fill(Building(l2), "devops", 1, env)
      a2 == fill(a1, "revenue", 2, env)
      a3 == fill(a2, "agents", 3, env)
      a4 == fill(a3, "system", 4, env)
      a5 == [a4 EXCEPT !.layout = update(a4.layout, "footer", GridFooter)]
  IN  Returned(a5)

\* a plausible slip in line 38: fewer keys in the dict
InPanelsShort(focused) == focused \in 1..3

\* `focused in panels`
InPanels(focused) == focused \in PanelKeys

\* a plausible slip in line 38, the docstring's wording `focused > 0`: then
\* panels[focused] raises KeyError for a key the dict does not hold
build_layout_positive(focused, env) ==
  IF focused > 0
    THEN (IF focused \in PanelKeys THEN FocusedLayout(focused, env)
                                   ELSE Raised(Building(Layout("root", 1, 0))))
    ELSE GridLayout(env)

\* _build_layout(focused): the layout returned and the providers called, in
\* call order
build_layout(focused, env) ==
  IF InPanels(focused) THEN FocusedLayout(focused, env) ELSE GridLayout(env)

(***************************************************************************)
(* Reading a layout.                                                       *)
(***************************************************************************)
\* the leaf regions of a layout, left to right, top to bottom
RECURSIVE Leaves(_)
RECURSIVE LeavesOf(_)
LeavesOf(nodes) ==
  IF nodes = <<>> THEN <<>> ELSE Leaves(Head(nodes)) \o LeavesOf(Tail(nodes))
Leaves(node) ==
  IF node.children = <<>> THEN << node >> ELSE LeavesOf(node.children)

IsFooterRegion(leaf) == leaf.name = "footer"

ProviderTitles == {"[1] DevOps", "[2] Revenue", "[3] Agents", "[4] System"}

\* a region showing a provider's panel
IsPanelRegion(leaf) ==
  /\ ~IsFooterRegion(leaf)
  /\ leaf.renderable.title \in ProviderTitles

NumPanelRegions(layout) ==
  Cardinality({k \in DOMAIN Leaves(layout) : IsPanelRegion(Leaves(layout)[k])})

NumFooterRegions(layout) ==
  Cardinality({k \in DOMAIN Leaves(layout) : IsFooterRegion(Leaves(layout)[k])})

(***************************************************************************)
(* The key listener's decision on one character (dashboard.py 96-102).     *)
(***************************************************************************)
CtrlC == "^C"      \* the byte 0x03
EOF == ""          \* what sys.stdin.read(1) returns at end of input

\* the characters the model feeds to sys.stdin.read(1)
Keys == {"q", "Q", CtrlC, "r", "0", "1", "2", "3", "4", "5", "R", "x", EOF}

\* a plausible slip in line 96: the upper-case key forgotten
IsQuitKeyLower(ch) == ch \in {"q", CtrlC}

\* `ch in ("q", "Q", "\x03")`
IsQuitKey(ch) == ch \in {"q", "Q", CtrlC}

\* `ch in "01234"`: a substring test, true of each digit and of the empty string
InDigits(ch) == ch \in {"0", "1", "2", "3", "4", ""}

ValueError == -1

\* int(ch) for the characters that pass the test above
int(ch) ==
  CASE ch = "0" -> 0
    [] ch = "1" -> 1
    [] ch = "2" -> 2
    [] ch = "3" -> 3
    [] ch = "4" -> 4
    [] OTHER -> ValueError

\* a plausible slip in line 98: 'R' taken for 'r', as 'Q' is for 'q'
KeyBranchAnyCase(ch) ==
  IF IsQuitKey(ch) THEN "quit"
  ELSE IF ch \in {"r", "R"} THEN "refresh"
  ELSE IF InDigits(ch) THEN (IF int(ch) = ValueError THEN "raise" ELSE "digit")
  ELSE "ignore"

\* which branch of the if/elif chain a character takes
KeyBranch(ch) ==
  IF IsQuitKey(ch) THEN "quit"
  ELSE IF ch = "r" THEN "refresh"
  ELSE IF InDigits(ch) THEN (IF int(ch) = ValueError THEN "raise" ELSE "digit")
  ELSE "ignore"

(***************************************************************************)
(* State.                                                                  *)
(***************************************************************************)
VARIABLES
  callFocused,   \* LayoutSpec: the argument of the _build_layout call
  callEnv,       \* LayoutSpec: the provider outcomes during the call
  callResult,    \* LayoutSpec: what the call returned (NoResult before it)
  refresh,       \* dash(refresh=...)
  no_interactive,\* dash(no_interactive=...)
  stateCreated,  \* whether line 122 has created the dict `state`
  state,         \* the dict: running, refresh, focused
  dpc,           \* where the foreground thread (dash) stands
  i,             \* sleep increments done in the current for loop of line 135
                 \* (0 outside the loop)
  built,         \* the layout handed to live.update and not yet refreshed
  frame,         \* the frame on the live display (the last one pushed)
  live,          \* inside the `with Live(...)` block
  consoleOut,    \* what console.print has printed, in order
  lpc,           \* where the listener thread stands
  lexc,          \* the exception the listener is unwinding with
  termMode,      \* the terminal's input mode
  exited,        \* the process has exited (daemon threads are gone)
  exitCode,      \* the command's exit code (-1 while running)
  \* history variables: they record what happened and steer nothing
  rawEntered,    \* tty.setraw has run
  liveEntered,   \* Live.__enter__ has run
  observedStop,  \* the render loop, still in its try block, has read
                 \* state["running"] as False
  sleepsAfterSignal, \* sleeps completed in the current for loop with a flag
                 \* already set (0 outside the loop)
  tracked,       \* one refresh-requesting key followed to its frame
  stdinKind,     \* what lines 87-91 met ("unknown" before they ran)
  dexc,          \* the exception propagating out of dash ("none": none)
  interrupted,   \* KeyboardInterrupt was raised inside the try block
  tick,          \* what the current pass of the while loop of line 130 has
                 \* done so far, in order
  \* ListenerSpec: the simulated reader
  input,         \* the characters still to be returned by sys.stdin.read(1)
  consumed,      \* the characters read so far, in order
  \* ProviderSpec: one call of a panel provider
  provName,      \* the provider called
  world,         \* what the provider's probes meet
  provResult,    \* what the call produced (NoCall before it)
  provAgain,     \* what a second call right after it produced
  \* CliSpec: main.py building the application, then one invocation
  registered,    \* the names registered on `app` so far
  mainpc,        \* the next registration statement of main.py
  argv,          \* the command line of the invocation (NoArgv before it)
  cpc,           \* where the invocation stands
  cliExit,       \* its exit code (-1 while it runs)
  procs,         \* the external processes it started, in order
  cliOut,        \* the titles of the panels it printed, in order
  \* LoggerSpec: the activity log and the last operation on it
  logFile,       \* activity.jsonl: whether it exists, and its lines
  logOp,         \* the last operation and what it returned
  \* RevenueSpec: the ledger and the last `revenue add`
  ledger,        \* ledger.json: its kind of content and the transactions in it
  addOp,         \* the last `revenue add` and how it ended
  \* RecipeSpec: one `recipe run`
  recipe,        \* what _load_recipe finds: no file, no JSON, or the steps
  rpc,           \* where the run stands
  ridx,          \* the index of the step the for loop is at
  passed,        \* the counter `passed`
  failed,        \* the counter `failed`
  executed,      \* the indices of the steps run so far, in order
  rExit,         \* the exit code of the command (-1 while it runs)
  rOut           \* the title of the summary printed

layoutVars == << callFocused, callEnv, callResult >>
dashVars == << refresh, no_interactive, stateCreated, state, dpc, i, built,
               frame, live, consoleOut, lpc, lexc, termMode, exited, exitCode,
               rawEntered, liveEntered, observedStop,
               sleepsAfterSignal, tracked, stdinKind, dexc, interrupted,
               tick >>
feedVars == << input, consumed >>
\* the variables of the other components
provVars == << provName, world, provResult, provAgain >>
cliVars == << registered, mainpc, argv, cpc, cliExit, procs, cliOut >>
logVars == << logFile, logOp >>
revVars == << ledger, addOp >>
recipeVars == << recipe, rpc, ridx, passed, failed, executed, rExit, rOut >>
toolVars == << logVars, revVars, recipeVars >>
otherVars == << provVars, cliVars, toolVars >>
vars == << layoutVars, dashVars, feedVars, otherVars >>

NoResult == [raised |-> FALSE, layout |-> Layout("none", 0, 0), calls |-> <<>>]
NoLayout == Layout("none", 0, 0)

\* line 122
InitialState == [running |-> TRUE, refresh |-> FALSE, focused |-> 0]

DashIdle ==
  /\ stateCreated = FALSE
  /\ state = InitialState
  /\ dpc = "entry"
  /\ i = 0
  /\ built = NoLayout
  /\ frame = NoLayout
  /\ live = FALSE
  /\ consoleOut = <<>>
  /\ lpc = "idle"
  /\ lexc = "none"
  /\ termMode = "Normal"
  /\ exited = FALSE
  /\ exitCode = -1
  /\ rawEntered = FALSE
  /\ liveEntered = FALSE
  /\ observedStop = FALSE
  /\ sleepsAfterSignal = 0
  /\ tracked = "none"
  /\ stdinKind = "unknown"
  /\ dexc = "none"
  /\ interrupted = FALSE
  /\ tick = <<>>

FeedIdle ==
  /\ input = <<>>
  /\ consumed = <<>>

NoCall == [raised |-> "none", panel |-> NoPanel, rows |-> << >>]

ProvIdle ==
  /\ provName = "none"
  /\ world = << >>
  /\ provResult = NoCall
  /\ provAgain = NoCall

NoArgv == [cmd |-> "none"]

CliIdle ==
  /\ registered = {}
  /\ mainpc = 1
  /\ argv = NoArgv
  /\ cpc = "import"
  /\ cliExit = -1
  /\ procs = << >>
  /\ cliOut = << >>

NoOp == [op |-> "none"]

LogIdle ==
  /\ logFile = [exists |-> FALSE, lines |-> << >>]
  /\ logOp = NoOp

RevIdle ==
  /\ ledger = [kind |-> "absent", entries |-> << >>]
  /\ addOp = NoOp

RecipeIdle ==
  /\ recipe = [kind |-> "none", steps |-> << >>]
  /\ rpc = "idle"
  /\ ridx = 0
  /\ passed = 0
  /\ failed = 0
  /\ executed = << >>
  /\ rExit = -1
  /\ rOut = "none"

ToolsIdle == LogIdle /\ RevIdle /\ RecipeIdle

LayoutIdle ==
  /\ callFocused = 0
  /\ callEnv = [p \in Providers |-> "ok"]
  /\ callResult = NoResult

(***************************************************************************)
(* LayoutSpec: _build_layout applied to bounded inputs.                     *)
(***************************************************************************)
FocusArgs == (0 - MaxFocusArg) .. (4 + MaxFocusArg)

LayoutInit ==
  /\ callFocused \in FocusArgs
  /\ callEnv \in Envs
  /\ callResult = NoResult
  /\ refresh = 0
  /\ no_interactive = FALSE
  /\ DashIdle
  /\ FeedIdle
  /\ ProvIdle
  /\ CliIdle
  /\ ToolsIdle

\* one call of _build_layout(callFocused)
CallBuildLayout ==
  /\ callResult = NoResult
  /\ callResult' = build_layout(callFocused, callEnv)
  /\ UNCHANGED << callFocused, callEnv >>
  /\ UNCHANGED << dashVars, feedVars, otherVars >>

LayoutNext == CallBuildLayout

LayoutSpec == LayoutInit /\ [][LayoutNext]_vars

(***************************************************************************)
(* Spec: one run of the dash command.                                      *)
(***************************************************************************)
RefreshArgs == 0 .. MaxRefresh

\* the provider outcomes a build of the running dashboard may meet: the four
\* providers all succeed or all degrade (LayoutSpec covers every mix)
DashEnvs == {[p \in Providers |-> o] : o \in Outcomes}

\* _build_layout tabulated over the arguments dash can pass and the outcomes
\* it can meet
Built == [f \in 0..4 |-> [e \in DashEnvs |-> build_layout(f, e).layout]]

Notice == [what |-> "notice", layout |-> NoLayout]
Printed(layout) == [what |-> "layout", layout |-> layout]

\* how many times "Dashboard closed." has been printed
NoticeCount == Cardinality({k \in DOMAIN consoleOut : consoleOut[k] = Notice})

Init ==
  /\ refresh \in RefreshArgs
  /\ no_interactive \in BOOLEAN
  /\ DashIdle
  /\ FeedIdle
  /\ ProvIdle
  /\ CliIdle
  /\ ToolsIdle
  /\ LayoutIdle

------------------------------------------------------------------------------
(* The foreground thread: dash, lines 112-143.                              *)

\* a plausible slip in lines 117-120: the flag tested after the listener and
\* the live display were set up, so the single render still starts the thread
SingleRenderAfterStart ==
  /\ dpc = "entry"
  /\ no_interactive
  /\ stateCreated' = TRUE
  /\ lpc' = "start"
  /\ \E e \in DashEnvs :
       consoleOut' = Append(consoleOut, Printed(Built[0][e]))
  /\ dpc' = "returned"
  /\ UNCHANGED << stdinKind, dexc, interrupted, tick >>
  /\ UNCHANGED << layoutVars, otherVars, feedVars, refresh, no_interactive, state, i,
                  built, frame, live, lexc, termMode, exited, exitCode,
                  rawEntered, liveEntered, observedStop,
                  sleepsAfterSignal, tracked >>

\* lines 117-120: console.print(_build_layout(0)); return
SingleRender ==
  /\ dpc = "entry"
  /\ no_interactive
  /\ \E e \in DashEnvs :
       consoleOut' = Append(consoleOut, Printed(Built[0][e]))
  /\ dpc' = "returned"
  /\ UNCHANGED << stdinKind, dexc, interrupted, tick >>
  /\ UNCHANGED << layoutVars, otherVars, feedVars, refresh, no_interactive, stateCreated, state, i,
                  built, frame, live, lpc, lexc, termMode, exited, exitCode,
                  rawEntered, liveEntered, observedStop,
                  sleepsAfterSignal, tracked >>

\* lines 122-126: create state, start the listener thread
StartListener ==
  /\ dpc = "entry"
  /\ ~no_interactive
  /\ stateCreated' = TRUE
  /\ state' = InitialState
  /\ lpc' = "start"
  /\ dpc' = "enterLive"
  /\ UNCHANGED << stdinKind, dexc, interrupted, tick >>
  /\ UNCHANGED << layoutVars, otherVars, feedVars, refresh, no_interactive, i, built, frame, live,
                  consoleOut, lexc, termMode, exited, exitCode, rawEntered,
                  liveEntered, observedStop, sleepsAfterSignal,
                  tracked >>

\* line 129: with Live(...) as live
EnterLive ==
  /\ dpc = "enterLive"
  /\ live' = TRUE
  /\ liveEntered' = TRUE
  /\ dpc' = "while130"
  /\ UNCHANGED << stdinKind, dexc, interrupted, tick >>
  /\ UNCHANGED << layoutVars, otherVars, feedVars, refresh, no_interactive, stateCreated, state, i,
                  built, frame, consoleOut, lpc, lexc, termMode, exited,
                  exitCode, rawEntered, observedStop,
                  sleepsAfterSignal, tracked >>

\* line 130: while state["running"]
While130 ==
  /\ dpc = "while130"
  /\ tick' = <<>>
  /\ dpc' = IF state.running THEN "update131" ELSE "exitLive"
  /\ observedStop' = (observedStop \/ ~state.running)
  /\ UNCHANGED << stdinKind, dexc, interrupted >>
  /\ UNCHANGED << layoutVars, otherVars, feedVars, refresh, no_interactive, stateCreated, state, i,
                  built, frame, live, consoleOut, lpc, lexc, termMode, exited,
                  exitCode, rawEntered, liveEntered, sleepsAfterSignal, tracked >>

\* line 131: live.update(_build_layout(state["focused"]))
Update131 ==
  /\ dpc = "update131"
  /\ tick' = Append(tick, "build")
  /\ \E e \in DashEnvs : built' = Built[state.focused][e]
  /\ tracked' = IF tracked = "waiting" THEN "building" ELSE tracked
  /\ dpc' = "refresh132"
  /\ UNCHANGED << stdinKind, dexc, interrupted >>
  /\ UNCHANGED << layoutVars, otherVars, feedVars, refresh, no_interactive, stateCreated, state, i,
                  frame, live, consoleOut, lpc, lexc, termMode, exited,
                  exitCode, rawEntered, liveEntered, observedStop,
                  sleepsAfterSignal >>

\* a plausible slip: line 139 placed right after line 132, before the wait
Refresh132ThenReset ==
  /\ dpc = "refresh132"
  /\ tick' = tick \o << "push", "clear" >>
  /\ state' = [state EXCEPT !.refresh = FALSE]
  /\ frame' = built
  /\ built' = NoLayout
  /\ i' = 0
  /\ sleepsAfterSignal' = 0
  /\ tracked' = IF tracked = "building" THEN "none" ELSE tracked
  /\ dpc' = "for135"
  /\ UNCHANGED << stdinKind, dexc, interrupted >>
  /\ UNCHANGED << layoutVars, otherVars, feedVars, refresh, no_interactive, stateCreated,
                  live, consoleOut, lpc, lexc, termMode, exited, exitCode,
                  rawEntered, liveEntered, observedStop >>

\* line 132: live.refresh(); then the for loop of line 135 starts
Refresh132 ==
  /\ dpc = "refresh132"
  /\ tick' = Append(tick, "push")
  /\ frame' = built
  /\ built' = NoLayout
  /\ i' = 0
  /\ sleepsAfterSignal' = 0
  /\ tracked' = IF tracked = "building" THEN "none" ELSE tracked
  /\ dpc' = "for135"
  /\ UNCHANGED << stdinKind, dexc, interrupted >>
  /\ UNCHANGED << layoutVars, otherVars, feedVars, refresh, no_interactive, stateCreated, state,
                  live, consoleOut, lpc, lexc, termMode, exited, exitCode,
                  rawEntered, liveEntered, observedStop >>

\* a plausible slip in line 135: range(refresh * 10 + 1)
WaitTicksPlusOne(r) == r * TicksPerSecond + 1

\* line 135: range(refresh * 10)
WaitTicks(r) == r * TicksPerSecond

\* a plausible slip in line 136: the refresh flag not polled
WaitBreaksOnQuit(st) == ~st.running

\* line 136: `not state["running"] or state["refresh"]`
WaitBreaks(st) == ~st.running \/ st.refresh

\* lines 135-137: next iteration of the for loop, or leave it
For135 ==
  /\ dpc = "for135"
  /\ tick' = IF i < WaitTicks(refresh) /\ tick[Len(tick)] # "wait"
               THEN Append(tick, "wait") ELSE tick
  /\ IF i >= WaitTicks(refresh) \/ WaitBreaks(state)
       THEN /\ dpc' = "reset139"
            /\ i' = 0
            /\ sleepsAfterSignal' = 0
       ELSE /\ dpc' = "sleep138"
            /\ UNCHANGED << i, sleepsAfterSignal >>
  /\ observedStop' = (observedStop \/ (i < WaitTicks(refresh) /\ ~state.running))
  /\ UNCHANGED << stdinKind, dexc, interrupted >>
  /\ UNCHANGED << layoutVars, otherVars, feedVars, refresh, no_interactive, stateCreated, state,
                  built, frame, live, consoleOut, lpc, lexc, termMode, exited,
                  exitCode, rawEntered, liveEntered, tracked >>

\* line 138: time.sleep(0.1) returns
Sleep138 ==
  /\ dpc = "sleep138"
  /\ i' = i + 1
  /\ sleepsAfterSignal' =
       IF ~state.running \/ state.refresh
         THEN sleepsAfterSignal + 1 ELSE sleepsAfterSignal
  /\ dpc' = "for135"
  /\ UNCHANGED << stdinKind, dexc, interrupted, tick >>
  /\ UNCHANGED << layoutVars, otherVars, feedVars, refresh, no_interactive, stateCreated, state,
                  built, frame, live, consoleOut, lpc, lexc, termMode, exited,
                  exitCode, rawEntered, liveEntered, observedStop,
                  tracked >>

\* a plausible slip in line 139: the whole dict set back to its initial value
Reset139All ==
  /\ dpc = "reset139"
  /\ tick' = Append(tick, "clear")
  /\ state' = InitialState
  /\ dpc' = "while130"
  /\ UNCHANGED << stdinKind, dexc, interrupted >>
  /\ UNCHANGED << layoutVars, otherVars, feedVars, refresh, no_interactive, stateCreated, i, built,
                  frame, live, consoleOut, lpc, lexc, termMode, exited,
                  exitCode, rawEntered, liveEntered, observedStop,
                  sleepsAfterSignal, tracked >>

\* line 139: state["refresh"] = False
Reset139 ==
  /\ dpc = "reset139"
  /\ tick' = Append(tick, "clear")
  /\ state' = [state EXCEPT !.refresh = FALSE]
  /\ dpc' = "while130"
  /\ UNCHANGED << stdinKind, dexc, interrupted >>
  /\ UNCHANGED << layoutVars, otherVars, feedVars, refresh, no_interactive, stateCreated, i, built,
                  frame, live, consoleOut, lpc, lexc, termMode, exited,
                  exitCode, rawEntered, liveEntered, observedStop,
                  sleepsAfterSignal, tracked >>

\* end of the with block: Live.__exit__ leaves the alternate screen, and the
\* last frame with it
ExitLive ==
  /\ dpc = "exitLive"
  /\ tick' = <<>>
  /\ live' = FALSE
  /\ frame' = NoLayout
  /\ observedStop' = FALSE
  /\ dpc' = "finally143"
  /\ UNCHANGED << stdinKind, dexc, interrupted >>
  /\ UNCHANGED << layoutVars, otherVars, feedVars, refresh, no_interactive, stateCreated, state, i,
                  built, consoleOut, lpc, lexc, termMode, exited, exitCode,
                  rawEntered, liveEntered, sleepsAfterSignal, tracked >>

\* the statements inside the try block of lines 128-139
TryPcs == {"enterLive", "while130", "update131", "refresh132", "for135",
           "sleep138", "reset139", "exitLive"}

\* a plausible slip in lines 140-141: no except clause, so the interrupt
\* leaves dash after the finally clause
KeyboardInterruptUncaught ==
  /\ dpc \in TryPcs
  /\ interrupted' = TRUE
  /\ dexc' = "KeyboardInterrupt"
  /\ tick' = <<>>
  /\ live' = FALSE
  /\ frame' = NoLayout
  /\ built' = NoLayout
  /\ i' = 0
  /\ sleepsAfterSignal' = 0
  /\ observedStop' = FALSE
  /\ dpc' = "finally143"
  /\ UNCHANGED << stdinKind >>
  /\ UNCHANGED << layoutVars, otherVars, feedVars, refresh, no_interactive, stateCreated, state,
                  consoleOut, lpc, lexc, termMode, exited, exitCode,
                  rawEntered, liveEntered, tracked >>

\* lines 140-141: KeyboardInterrupt raised in the main thread inside the try;
\* the with block unwinds (Live.__exit__), the locals of the loop are dead,
\* the except clause passes
KeyboardInterrupt ==
  /\ dpc \in TryPcs
  /\ interrupted' = TRUE
  /\ dexc' = "none"
  /\ tick' = <<>>
  /\ live' = FALSE
  /\ frame' = NoLayout
  /\ built' = NoLayout
  /\ i' = 0
  /\ sleepsAfterSignal' = 0
  /\ observedStop' = FALSE
  /\ dpc' = "finally143"
  /\ UNCHANGED << stdinKind >>
  /\ UNCHANGED << layoutVars, otherVars, feedVars, refresh, no_interactive, stateCreated, state,
                  consoleOut, lpc, lexc, termMode, exited, exitCode,
                  rawEntered, liveEntered, tracked >>

\* lines 142-143: console.print("Dashboard closed."); dash returns
Finally143 ==
  /\ dpc = "finally143"
  /\ consoleOut' = Append(consoleOut, Notice)
  /\ dpc' = "returned"
  /\ UNCHANGED << stdinKind, dexc, interrupted, tick >>
  /\ UNCHANGED << layoutVars, otherVars, feedVars, refresh, no_interactive, stateCreated, state, i,
                  built, frame, live, lpc, lexc, termMode, exited, exitCode,
                  rawEntered, liveEntered, observedStop,
                  sleepsAfterSignal, tracked >>

\* main.py 70: app() ends after dash returned; the interpreter exits and the
\* daemon thread of line 125 is dropped where it stands
ProcessExit ==
  /\ dpc = "returned"
  /\ ~exited
  /\ exited' = TRUE
  /\ exitCode' = (IF dexc = "none" THEN 0 ELSE 1)
  /\ UNCHANGED << stdinKind, dexc, interrupted, tick >>
  /\ UNCHANGED << layoutVars, otherVars, feedVars, refresh, no_interactive, stateCreated, state,
                  dpc, i, built, frame, live, consoleOut, lpc, lexc, termMode,
                  rawEntered, liveEntered, observedStop,
                  sleepsAfterSignal, tracked >>

------------------------------------------------------------------------------
(* The listener thread: _key_listener, lines 84-109.                        *)

\* what lines 87-91 meet: a terminal, a missing termios module, a stdin
\* without file descriptor (OSError), a descriptor that is no terminal
\* (termios.error, which is not an OSError)
StdinKinds == {"tty", "noimport", "nofileno", "notty"}

\* lines 87-91: imports, fileno(), tcgetattr()
ListenerSetup ==
  /\ lpc = "start"
  /\ ~exited
  /\ \E kind \in StdinKinds :
       /\ stdinKind' = kind
       /\ lpc' = CASE kind = "tty" -> "setraw93"
                [] kind = "noimport" -> "fallback108"
                [] kind = "nofileno" -> "fallback108"
                [] kind = "notty" -> "dead"
  /\ UNCHANGED << dexc, interrupted, tick >>
  /\ UNCHANGED << layoutVars, otherVars, feedVars, refresh, no_interactive, stateCreated, state,
                  dpc, i, built, frame, live, consoleOut, lexc, termMode,
                  exited, exitCode, rawEntered, liveEntered, observedStop, sleepsAfterSignal, tracked >>

\* line 93: tty.setraw(fd)
SetRaw93 ==
  /\ lpc = "setraw93"
  /\ ~exited
  /\ termMode' = "Raw"
  /\ rawEntered' = TRUE
  /\ lpc' = "while94"
  /\ UNCHANGED << stdinKind, dexc, interrupted, tick >>
  /\ UNCHANGED << layoutVars, otherVars, feedVars, refresh, no_interactive, stateCreated, state,
                  dpc, i, built, frame, live, consoleOut, lexc, exited,
                  exitCode, liveEntered, observedStop,
                  sleepsAfterSignal, tracked >>

\* line 94: while state["running"]
While94 ==
  /\ lpc = "while94"
  /\ ~exited
  /\ lpc' = IF state.running THEN "read95" ELSE "finally104"
  /\ UNCHANGED << stdinKind, dexc, interrupted, tick >>
  /\ UNCHANGED << layoutVars, otherVars, feedVars, refresh, no_interactive, stateCreated, state,
                  dpc, i, built, frame, live, consoleOut, lexc, termMode,
                  exited, exitCode, rawEntered, liveEntered, observedStop, sleepsAfterSignal, tracked >>

\* the history variable `tracked` may start to follow a key whose refresh
\* request has just been written, when it follows none
TrackKey == IF tracked = "none" THEN {"none", "waiting"} ELSE {tracked}

\* lines 95-101: read one character and run the first statement of its branch
ReadKey(ch) ==
  /\ lpc = "read95"
  /\ ~exited
  /\ CASE KeyBranch(ch) = "quit" ->
            /\ state' = [state EXCEPT !.running = FALSE]
            /\ lpc' = "while94"
            /\ UNCHANGED << lexc, tracked >>
       [] KeyBranch(ch) = "refresh" ->
            /\ state' = [state EXCEPT !.refresh = TRUE]
            /\ lpc' = "while94"
            /\ tracked' \in TrackKey
            /\ UNCHANGED lexc
       [] KeyBranch(ch) = "digit" ->
            /\ state' = [state EXCEPT !.focused = int(ch)]
            /\ lpc' = "l102"
            /\ UNCHANGED << lexc, tracked >>
       [] KeyBranch(ch) = "raise" ->
            /\ lexc' = "ValueError"
            /\ lpc' = "finally104"
            /\ UNCHANGED << state, tracked >>
       [] OTHER ->
            /\ lpc' = "while94"
            /\ UNCHANGED << state, lexc, tracked >>
  /\ UNCHANGED << stdinKind, dexc, interrupted, tick >>
  /\ UNCHANGED << layoutVars, otherVars, refresh, no_interactive, stateCreated, dpc, i,
                  built, frame, live, consoleOut, termMode, exited, exitCode,
                  rawEntered, liveEntered, observedStop,
                  sleepsAfterSignal >>

\* line 95: sys.stdin.read(1) raises OSError (the terminal went away)
ReadFails ==
  /\ lpc = "read95"
  /\ ~exited
  /\ lexc' = "OSError"
  /\ lpc' = "finally104"
  /\ UNCHANGED << stdinKind, dexc, interrupted, tick >>
  /\ UNCHANGED << layoutVars, otherVars, feedVars, refresh, no_interactive, stateCreated, state,
                  dpc, i, built, frame, live, consoleOut, termMode, exited,
                  exitCode, rawEntered, liveEntered, observedStop,
                  sleepsAfterSignal, tracked >>

\* a plausible slip in the digit branch: line 102 forgotten
Refresh102Missing ==
  /\ lpc = "l102"
  /\ ~exited
  /\ lpc' = "while94"
  /\ UNCHANGED << stdinKind, dexc, interrupted, tick >>
  /\ UNCHANGED << layoutVars, otherVars, feedVars, refresh, no_interactive, stateCreated, dpc, i,
                  built, frame, live, consoleOut, lexc, termMode, exited,
                  exitCode, rawEntered, liveEntered, observedStop,
                  sleepsAfterSignal, state, tracked >>

\* line 102: state["refresh"] = True, the second statement of the digit branch
Refresh102 ==
  /\ lpc = "l102"
  /\ ~exited
  /\ state' = [state EXCEPT !.refresh = TRUE]
  /\ tracked' \in TrackKey
  /\ lpc' = "while94"
  /\ UNCHANGED << stdinKind, dexc, interrupted, tick >>
  /\ UNCHANGED << layoutVars, otherVars, feedVars, refresh, no_interactive, stateCreated, dpc, i,
                  built, frame, live, consoleOut, lexc, termMode, exited,
                  exitCode, rawEntered, liveEntered, observedStop,
                  sleepsAfterSignal >>

\* a plausible slip in lines 103-104: the attributes restored after the loop
\* instead of in a finally clause, so not when an exception leaves the loop
Finally104AfterLoop ==
  /\ lpc = "finally104"
  /\ ~exited
  /\ termMode' = (IF lexc = "none" THEN "Normal" ELSE termMode)
  /\ lpc' = CASE lexc = "none" -> "done"
              [] lexc = "OSError" -> "fallback108"
              [] OTHER -> "dead"
  /\ UNCHANGED << stdinKind, dexc, interrupted, tick >>
  /\ UNCHANGED << layoutVars, otherVars, feedVars, refresh, no_interactive, stateCreated, state,
                  dpc, i, built, frame, live, consoleOut, lexc, exited,
                  exitCode, rawEntered, liveEntered, observedStop,
                  sleepsAfterSignal, tracked >>

\* lines 103-105: the finally clause restores the saved attributes; an OSError
\* goes on to the except clause of line 105, any other exception ends the thread
Finally104 ==
  /\ lpc = "finally104"
  /\ ~exited
  /\ termMode' = "Normal"
  /\ lpc' = CASE lexc = "none" -> "done"
              [] lexc = "OSError" -> "fallback108"
              [] OTHER -> "dead"
  /\ UNCHANGED << stdinKind, dexc, interrupted, tick >>
  /\ UNCHANGED << layoutVars, otherVars, feedVars, refresh, no_interactive, stateCreated, state,
                  dpc, i, built, frame, live, consoleOut, lexc, exited,
                  exitCode, rawEntered, liveEntered, observedStop,
                  sleepsAfterSignal, tracked >>

\* line 108: while state["running"]
Fallback108 ==
  /\ lpc = "fallback108"
  /\ ~exited
  /\ lpc' = IF state.running THEN "sleep109" ELSE "done"
  /\ UNCHANGED << stdinKind, dexc, interrupted, tick >>
  /\ UNCHANGED << layoutVars, otherVars, feedVars, refresh, no_interactive, stateCreated, state,
                  dpc, i, built, frame, live, consoleOut, lexc, termMode,
                  exited, exitCode, rawEntered, liveEntered, observedStop, sleepsAfterSignal, tracked >>

\* line 109: time.sleep(0.5) returns
Sleep109 ==
  /\ lpc = "sleep109"
  /\ ~exited
  /\ lpc' = "fallback108"
  /\ UNCHANGED << stdinKind, dexc, interrupted, tick >>
  /\ UNCHANGED << layoutVars, otherVars, feedVars, refresh, no_interactive, stateCreated, state,
                  dpc, i, built, frame, live, consoleOut, lexc, termMode,
                  exited, exitCode, rawEntered, liveEntered, observedStop, sleepsAfterSignal, tracked >>

------------------------------------------------------------------------------
\* the foreground thread's own steps
Foreground ==
  \/ SingleRender
  \/ StartListener
  \/ EnterLive
  \/ While130
  \/ Update131
  \/ Refresh132
  \/ For135
  \/ Sleep138
  \/ Reset139
  \/ ExitLive
  \/ Finally143
  \/ ProcessExit

\* the listener's steps that wait for nothing outside the program
ListenerInternal ==
  \/ ListenerSetup
  \/ SetRaw93
  \/ While94
  \/ Refresh102
  \/ Finally104
  \/ Fallback108
  \/ Sleep109

Next ==
  \/ Foreground
  \/ KeyboardInterrupt
  \/ ListenerInternal
  \/ \E ch \in Keys : ReadKey(ch) /\ UNCHANGED feedVars
  \/ ReadFails

Spec == Init /\ [][Next]_vars

\* both threads are scheduled; a key press and an interrupt may never come
FairSpec == Spec /\ WF_vars(Foreground) /\ WF_vars(ListenerInternal)

(***************************************************************************)
(* ListenerSpec: _key_listener alone, called on a fresh dict, with a        *)
(* simulated reader that returns a bounded sequence of characters.          *)
(***************************************************************************)
KeySeqs == UNION {[1..n -> Keys] : n \in 0..MaxKeys}

ListenerInit ==
  /\ refresh = 1
  /\ no_interactive = FALSE
  /\ stateCreated = TRUE
  /\ state = InitialState
  /\ dpc = "none"
  /\ i = 0
  /\ built = NoLayout
  /\ frame = NoLayout
  /\ live = FALSE
  /\ consoleOut = <<>>
  /\ lpc = "start"
  /\ lexc = "none"
  /\ termMode = "Normal"
  /\ exited = FALSE
  /\ exitCode = -1
  /\ rawEntered = FALSE
  /\ liveEntered = FALSE
  /\ observedStop = FALSE
  /\ sleepsAfterSignal = 0
  /\ tracked = "none"
  /\ stdinKind = "unknown"
  /\ dexc = "none"
  /\ interrupted = FALSE
  /\ tick = <<>>
  /\ input \in KeySeqs
  /\ consumed = <<>>
  /\ ProvIdle
  /\ CliIdle
  /\ ToolsIdle
  /\ LayoutIdle

\* line 95 returns the next character of the simulated input
FeedKey ==
  /\ input # <<>>
  /\ ReadKey(Head(input))
  /\ input' = Tail(input)
  /\ consumed' = Append(consumed, Head(input))

ListenerNext ==
  \/ ListenerInternal
  \/ FeedKey

\* the thread is scheduled and the reader delivers what it holds
ListenerSpec ==
  /\ ListenerInit
  /\ [][ListenerNext]_vars
  /\ WF_vars(ListenerInternal)
  /\ WF_vars(FeedKey)

(***************************************************************************)
(* ProviderSpec: one provider called twice in a row in one world.           *)
(***************************************************************************)
ProviderInit ==
  /\ refresh = 1
  /\ no_interactive = FALSE
  /\ DashIdle
  /\ FeedIdle
  /\ LayoutIdle
  /\ CliIdle
  /\ ToolsIdle
  /\ provName \in Providers
  /\ world \in Worlds(provName)
  /\ provResult = NoCall
  /\ provAgain = NoCall

CallProvider ==
  /\ provName \in Providers
  /\ provResult = NoCall
  /\ provResult' = call(provName, world)
  /\ world' = after(provName, world)
  /\ UNCHANGED << layoutVars, dashVars, feedVars, toolVars, cliVars, provName,
                  provAgain >>

\* the same provider called once more, right after the first call
CallAgain ==
  /\ provResult # NoCall
  /\ provAgain = NoCall
  /\ provAgain' = call(provName, world)
  /\ world' = after(provName, world)
  /\ UNCHANGED << layoutVars, dashVars, feedVars, toolVars, cliVars, provName,
                  provResult >>

ProviderNext ==
  \/ CallProvider
  \/ CallAgain

ProviderSpec == ProviderInit /\ [][ProviderNext]_vars

(***************************************************************************)
(* CliSpec: main.py registers the commands on `app` (lines 26-36), then the *)
(* application is invoked once.  `devops deploy` is modelled in full, the   *)
(* other commands up to their dispatch.                                     *)
(***************************************************************************)
\* main.py lines 26, 27, 28, 29, 30, 33, 36: the registration statements
Registrations ==
  << "devops", "revenue", "marketing", "agents", "system", "dash", "version" >>

\* the first words tried on the command line
TopNames == {"devops", "revenue", "marketing", "agents", "system", "market",
             "logs", "recipe", "dash", "init", "version", "bogus"}

\* the targets tried with `devops deploy`
Targets == {"vercel", "cloudflare", "docker", "unknown-platform", "Vercel", ""}

Argvs ==
  {[cmd |-> n] : n \in TopNames} \cup
  [cmd : {"devops"}, sub : {"deploy"}, target : Targets,
   exists : BOOLEAN, prod : BOOLEAN, outcome : ToolOutcomes]

\* a plausible slip in line 35: an unknown target falls back to vercel
deployersDefault(target) ==
  CASE target = "cloudflare" -> "_deploy_cloudflare"
    [] target = "docker" -> "_deploy_docker"
    [] OTHER -> "_deploy_vercel"

\* devops.py lines 29-35: deployers.get(target)
deployers(target) ==
  CASE target = "vercel" -> "_deploy_vercel"
    [] target = "cloudflare" -> "_deploy_cloudflare"
    [] target = "docker" -> "_deploy_docker"
    [] OTHER -> "None"

\* the command line each deployer hands to subprocess.run
DeployCmd(d, prod) ==
  CASE d = "_deploy_vercel" ->
         IF prod THEN << "vercel", "--prod" >> ELSE << "vercel" >>
    [] d = "_deploy_cloudflare" ->
         IF prod THEN << "wrangler", "deploy" >>
         ELSE << "wrangler", "deploy", "--dry-run" >>
    [] d = "_deploy_docker" ->
         << "docker", "build", "-t",
            IF prod THEN "mekon-app:latest" ELSE "mekon-app:dev", "." >>

DeployName(d) ==
  CASE d = "_deploy_vercel" -> "Vercel"
    [] d = "_deploy_cloudflare" -> "Cloudflare"
    [] d = "_deploy_docker" -> "Docker"

\* what an invocation did: exit code, processes started, panels printed
Ran(exit, started, out) == [exit |-> exit, procs |-> started, out |-> out]

\* devops.py lines 120-183: a deployer.  A tool that is not installed never
\* starts (FileNotFoundError, caught, exit 1); a timeout or a refusal leaves
\* the command as an uncaught exception (exit 1)
run_deployer(d, prod, outcome) ==
  CASE outcome = "ok" ->
         Ran(0, << DeployCmd(d, prod) >>,
             << IF d = "_deploy_docker" THEN "Docker Build"
                ELSE DeployName(d) \o " Deploy" >>)
    [] outcome = "nonzero" ->
         Ran(1, << DeployCmd(d, prod) >>, << DeployName(d) \o " Error" >>)
    [] outcome = "missing" ->
         Ran(1, << >>, << DeployName(d) \o " Error" >>)
    [] outcome = "timeout" ->
         Ran(1, << DeployCmd(d, prod) >>, << >>)
    [] outcome = "denied" ->
         Ran(1, << >>, << >>)

\* devops.py lines 16-40
deploy(target, exists, prod, outcome) ==
  IF ~exists THEN Ran(1, << >>, << "Deploy Error" >>)
  ELSE IF deployers(target) = "None" THEN Ran(1, << >>, << "Deploy Error" >>)
  ELSE run_deployer(deployers(target), prod, outcome)

CliInit ==
  /\ refresh = 1
  /\ no_interactive = FALSE
  /\ DashIdle
  /\ FeedIdle
  /\ ProvIdle
  /\ CliIdle
  /\ ToolsIdle
  /\ LayoutIdle

\* one registration statement of main.py
Register ==
  /\ cpc = "import"
  /\ mainpc <= Len(Registrations)
  /\ registered' = registered \cup {Registrations[mainpc]}
  /\ mainpc' = mainpc + 1
  /\ UNCHANGED << layoutVars, dashVars, feedVars, toolVars, provVars, argv, cpc,
                  cliExit, procs, cliOut >>

\* main.py line 70: app() is called with a command line
Invoke ==
  /\ cpc = "import"
  /\ mainpc > Len(Registrations)
  /\ argv' \in Argvs
  /\ cpc' = "dispatch"
  /\ UNCHANGED << layoutVars, dashVars, feedVars, toolVars, provVars, registered,
                  mainpc, cliExit, procs, cliOut >>

\* the application looks the first word up among the registered names: an
\* unknown name is a usage error (exit code 2); `devops deploy` runs
RunCommand ==
  /\ cpc = "dispatch"
  /\ IF argv.cmd \notin registered
       THEN /\ cpc' = "done"
            /\ cliExit' = 2
            /\ UNCHANGED << procs, cliOut >>
     ELSE IF DOMAIN argv = {"cmd"}
       THEN /\ cpc' = "dispatched"
            /\ UNCHANGED << cliExit, procs, cliOut >>
     ELSE LET r == deploy(argv.target, argv.exists, argv.prod, argv.outcome)
          IN /\ cpc' = "done"
             /\ cliExit' = r.exit
             /\ procs' = r.procs
             /\ cliOut' = r.out
  /\ UNCHANGED << layoutVars, dashVars, feedVars, toolVars, provVars, registered,
                  mainpc, argv >>

CliNext ==
  \/ Register
  \/ Invoke
  \/ RunCommand

CliSpec == CliInit /\ [][CliNext]_vars

(***************************************************************************)
(* LoggerSpec: ActivityLogger (core/logger.py) and the command `logs clear` *)
(* (commands/logs.py) on a bounded activity log.                            *)
(***************************************************************************)
\* the lines of activity.jsonl: two entries and the blank line
LogLines == {"a", "b", ""}

LogSeqs == UNION {[1..n -> LogLines] : n \in 0..MaxLog}

NoFile == [exists |-> FALSE, lines |-> << >>]

IsEntry(line) == line # ""

\* logger.py lines 36-37 and 44-45: the lines that are not blank
entries_of(file) == SelectSeq(file.lines, IsEntry)

\* Python's seq[start:] for an integer start
SliceFrom(seq, start) ==
  LET n == Len(seq)
      from == IF start < 0 THEN (IF n + start < 0 THEN 0 ELSE n + start)
              ELSE (IF start > n THEN n ELSE start)
  IN SubSeq(seq, from + 1, n)

\* logger.py lines 32-38: ActivityLogger.read
read(file, limit) ==
  IF ~file.exists THEN << >>
  ELSE SliceFrom(entries_of(file), 0 - limit)

\* logger.py lines 20-30: ActivityLogger.log
log(file, entry) == [exists |-> TRUE, lines |-> Append(file.lines, entry)]

\* logger.py lines 40-47: ActivityLogger.clear, the count and the file after
clear(file) ==
  IF ~file.exists THEN [count |-> 0, file |-> file]
  ELSE [count |-> Len(entries_of(file)), file |-> NoFile]

Answers == {"y", "n"}

\* a plausible slip in logs.py line 80: typer.confirm without abort=True
confirmNoAbort(answer) == "proceed"

\* logs.py line 80: typer.confirm(..., abort=True)
confirm(answer) == IF answer = "y" THEN "proceed" ELSE "abort"

\* the limits tried with read
Limits == (0 - 1) .. (MaxLog + 1)

LoggerInit ==
  /\ refresh = 1
  /\ no_interactive = FALSE
  /\ DashIdle
  /\ FeedIdle
  /\ ProvIdle
  /\ CliIdle
  /\ LayoutIdle
  /\ RevIdle
  /\ RecipeIdle
  /\ logFile \in {NoFile} \cup {[exists |-> TRUE, lines |-> l] : l \in LogSeqs}
  /\ logOp = NoOp

LogUnchanged ==
  UNCHANGED << layoutVars, dashVars, feedVars, provVars, cliVars, revVars,
               recipeVars >>

\* ActivityLogger.log appends one entry
LogEntry ==
  /\ Len(logFile.lines) < MaxLog
  /\ \E e \in {"a", "b"} :
       /\ logFile' = log(logFile, e)
       /\ logOp' = [op |-> "log", entry |-> e]
  /\ LogUnchanged

\* ActivityLogger.read(limit)
ReadLog ==
  /\ \E limit \in Limits :
       logOp' = [op |-> "read", limit |-> limit,
                 result |-> read(logFile, limit)]
  /\ UNCHANGED logFile
  /\ LogUnchanged

\* logs.py lines 77-83: the command `logs clear`, the user answering the
\* confirmation; a refusal is typer.Abort (exit code 1)
ClearLogs ==
  /\ \E answer \in Answers :
       IF confirm(answer) = "abort"
         THEN /\ logOp' = [op |-> "clear", answer |-> answer, exit |-> 1,
                           out |-> "Aborted.", count |-> 0]
              /\ UNCHANGED logFile
         ELSE /\ logOp' = [op |-> "clear", answer |-> answer, exit |-> 0,
                           out |-> "Logs Cleared",
                           count |-> clear(logFile).count]
              /\ logFile' = clear(logFile).file
  /\ LogUnchanged

LoggerNext ==
  \/ LogEntry
  \/ ReadLog
  \/ ClearLogs

LoggerSpec == LoggerInit /\ [][LoggerNext]_vars

(***************************************************************************)
(* RecipeSpec: the command `recipe run` (commands/recipe.py lines 71-132)   *)
(* on a bounded recipe.                                                     *)
(***************************************************************************)
\* what subprocess.run(command, shell=True, timeout=300) meets at a step:
\* exit code 0, another exit code, TimeoutExpired, OSError
StepOutcomes == {"ok", "nonzero", "timeout", "oserror"}

\* a step, as far as run looks at it
Steps == [outcome : StepOutcomes, continue_on_error : BOOLEAN]

StepSeqs == UNION {[1..n -> Steps] : n \in 0..MaxSteps}

\* what _load_recipe finds: no file, a file that is no JSON, or a recipe
Recipes ==
  {[kind |-> "missing", steps |-> << >>], [kind |-> "invalid", steps |-> << >>]}
    \cup {[kind |-> "steps", steps |-> ss] : ss \in StepSeqs}

\* lines 103, 114, 120: the step did not pass
StepFails(step) == step.outcome # "ok"

\* a plausible slip: the break of lines 117-119 and 123-124 forgotten
BreaksOnExitCode(step) ==
  step.outcome = "nonzero" /\ ~step.continue_on_error

\* lines 111-113, 117-119, 123-124: `if not continue_on_error: break`
Breaks(step) == StepFails(step) /\ ~step.continue_on_error

\* a plausible slip in lines 130-132: the raise forgotten
ExitCodeZero(f) == 0

\* lines 128-132: the exit code for `failed` failures
ExitCode(f) == IF f = 0 THEN 0 ELSE 1

RecipeInit ==
  /\ refresh = 1
  /\ no_interactive = FALSE
  /\ DashIdle
  /\ FeedIdle
  /\ ProvIdle
  /\ CliIdle
  /\ LayoutIdle
  /\ LogIdle
  /\ RevIdle
  /\ recipe \in Recipes
  /\ rpc = "load"
  /\ ridx = 0
  /\ passed = 0
  /\ failed = 0
  /\ executed = << >>
  /\ rExit = -1
  /\ rOut = "none"

RecipeUnchanged ==
  UNCHANGED << layoutVars, dashVars, feedVars, provVars, cliVars, logVars,
               revVars >>

\* lines 76-87: _load_recipe, the empty recipe, the counters
LoadRecipe ==
  /\ rpc = "load"
  /\ CASE recipe.kind = "missing" ->
            /\ rOut' = "Recipe Not Found"
            /\ rExit' = 1
            /\ rpc' = "done"
            /\ UNCHANGED ridx
       [] recipe.kind = "invalid" ->
            /\ rOut' = "Recipe Error"
            /\ rExit' = 1
            /\ rpc' = "done"
            /\ UNCHANGED ridx
       [] recipe.kind = "steps" /\ recipe.steps = << >> ->
            /\ rOut' = "Recipe has no steps."
            /\ rExit' = 0
            /\ rpc' = "done"
            /\ UNCHANGED ridx
       [] OTHER ->
            /\ rpc' = "loop"
            /\ ridx' = 1
            /\ UNCHANGED << rOut, rExit >>
  /\ UNCHANGED << recipe, passed, failed, executed >>
  /\ RecipeUnchanged

\* lines 89-124: one iteration of the for loop
RunStep ==
  /\ rpc = "loop"
  /\ executed' = Append(executed, ridx)
  /\ IF StepFails(recipe.steps[ridx])
       THEN failed' = failed + 1 /\ UNCHANGED passed
       ELSE passed' = passed + 1 /\ UNCHANGED failed
  /\ IF Breaks(recipe.steps[ridx]) \/ ridx = Len(recipe.steps)
       THEN rpc' = "summary" /\ UNCHANGED ridx
       ELSE rpc' = "loop" /\ ridx' = ridx + 1
  /\ UNCHANGED << recipe, rExit, rOut >>
  /\ RecipeUnchanged

\* lines 126-132: the summary panel and the exit code
Summary ==
  /\ rpc = "summary"
  /\ rOut' = IF failed = 0 THEN "success:Recipe Complete"
             ELSE "error:Recipe Complete"
  /\ rExit' = ExitCode(failed)
  /\ rpc' = "done"
  /\ UNCHANGED << recipe, ridx, passed, failed, executed >>
  /\ RecipeUnchanged

RecipeNext ==
  \/ LoadRecipe
  \/ RunStep
  \/ Summary

RecipeSpec == RecipeInit /\ [][RecipeNext]_vars

(***************************************************************************)
(* RevenueSpec: the command `revenue add` (commands/revenue.py lines 61-84  *)
(* and 161-173) on a bounded ledger.                                        *)
(***************************************************************************)
\* the amounts recorded; a transaction is modelled by its amount
Amounts == {"10", "25", "40"}

AmountSeqs == UNION {[1..n -> Amounts] : n \in 0..(MaxLedger - 1)}

\* ledger.json: not there; a JSON list of transactions; text that is no
\* JSON (a damaged list) but still holds transactions; a list that may not
\* be read.  `entries` are the transactions recorded in the file
LedgerKinds == {"valid", "malformed", "unreadable"}

NoLedger == [kind |-> "absent", entries |-> << >>]

Ledgers ==
  {NoLedger} \cup [kind : LedgerKinds, entries : AmountSeqs]

\* lines 161-168: _load_ledger; read_text raising PermissionError is not
\* caught by `except (json.JSONDecodeError, ValueError)`
load_ledger(l) ==
  CASE l.kind = "absent" -> [raised |-> "none", entries |-> << >>]
    [] l.kind = "valid" -> [raised |-> "none", entries |-> l.entries]
    [] l.kind = "malformed" -> [raised |-> "none", entries |-> << >>]
    [] l.kind = "unreadable" ->
         [raised |-> "PermissionError", entries |-> << >>]

\* lines 171-173: _save_ledger writes the list as JSON
save_ledger(entries) == [kind |-> "valid", entries |-> entries]

RevenueInit ==
  /\ refresh = 1
  /\ no_interactive = FALSE
  /\ DashIdle
  /\ FeedIdle
  /\ ProvIdle
  /\ CliIdle
  /\ LayoutIdle
  /\ LogIdle
  /\ RecipeIdle
  /\ ledger \in Ledgers
  /\ addOp = NoOp

\* lines 61-84: revenue add <amount>
AddRevenue ==
  /\ Len(ledger.entries) < MaxLedger
  /\ \E a \in Amounts :
       IF load_ledger(ledger).raised # "none"
         THEN /\ addOp' = [op |-> "add", amount |-> a, before |-> ledger,
                           exit |-> 1]
              /\ UNCHANGED ledger
         ELSE /\ ledger' = save_ledger(Append(load_ledger(ledger).entries, a))
              /\ addOp' = [op |-> "add", amount |-> a, before |-> ledger,
                           exit |-> 0]
  /\ UNCHANGED << layoutVars, dashVars, feedVars, provVars, cliVars, logVars,
                  recipeVars >>

RevenueNext == AddRevenue

RevenueSpec == RevenueInit /\ [][RevenueNext]_vars

(***************************************************************************)
(* Properties of _build_layout, checked under LayoutSpec.                   *)
(***************************************************************************)
CallDone == callResult # NoResult

\* the provider and the panel title the specification gives each index
ExpectedProvider(k) ==
  CASE k = 1 -> "collect_devops"
    [] k = 2 -> "collect_revenue"
    [] k = 3 -> "collect_agents"
    [] k = 4 -> "collect_system"

ExpectedTitle(k) ==
  CASE k = 1 -> "[1] DevOps"
    [] k = 2 -> "[2] Revenue"
    [] k = 3 -> "[3] Agents"
    [] k = 4 -> "[4] System"

\* C7: for focused in 0..4 the call returns (does not raise) a layout with one
\* footer region plus exactly 4 panel regions when focused = 0 and exactly 1
\* panel region when focused is in 1..4.
C7_RegionCount ==
  (CallDone /\ callFocused \in 0..4) =>
    /\ ~callResult.raised
    /\ NumFooterRegions(callResult.layout) = 1
    /\ NumPanelRegions(callResult.layout) = (IF callFocused = 0 THEN 4 ELSE 1)
    /\ Len(Leaves(callResult.layout)) = (IF callFocused = 0 THEN 5 ELSE 2)

C7_Witness ==
  /\ CallDone
  /\ callFocused = 4
  /\ NumPanelRegions(callResult.layout) = 1
  /\ NumFooterRegions(callResult.layout) = 1

C9_OneProvider ==
  (CallDone /\ callFocused \in 1..4) =>
    /\ callResult.calls = << ExpectedProvider(callFocused) >>
    /\ callResult.layout.children[1].name = "main"
    /\ callResult.layout.children[1].renderable.title = ExpectedTitle(callFocused)

C9_Witness ==
  /\ CallDone
  /\ callFocused = 2
  /\ callResult.calls = << "collect_revenue" >>

\* C10: in grid mode one call invokes the four providers, each once, in the
\* order ops, financial, agent, system, and shows them top-left, top-right,
\* bottom-left and bottom-right.
C10_GridOrder ==
  (CallDone /\ callFocused \notin 1..4) =>
    LET root == callResult.layout
        top == root.children[1]
        bottom == root.children[2]
    IN  /\ callResult.calls = << "collect_devops", "collect_revenue",
                                 "collect_agents", "collect_system" >>
        /\ root.splitter = "column"
        /\ Len(root.children) = 3
        /\ root.children[3].name = "footer"
        /\ top.splitter = "row" /\ Len(top.children) = 2
        /\ bottom.splitter = "row" /\ Len(bottom.children) = 2
        /\ top.children[1].renderable = collect_devops(callEnv["collect_devops"])
        /\ top.children[2].renderable = collect_revenue(callEnv["collect_revenue"])
        /\ bottom.children[1].renderable = collect_agents(callEnv["collect_agents"])
        /\ bottom.children[2].renderable = collect_system(callEnv["collect_system"])

C10_Witness ==
  /\ CallDone
  /\ callFocused = 0
  /\ Len(callResult.calls) = 4
  /\ callEnv["collect_revenue"] = "error"
  /\ callEnv["collect_agents"] = "ok"

(***************************************************************************)
(* Properties of the dash command, checked under Spec and FairSpec.         *)
(***************************************************************************)
QuitChars == {"q", "Q", CtrlC}

\* C1: the render loop never builds a layout from a focused value written by
\* a digit key whose refresh = True write has not happened yet: line 131 never
\* runs while the listener stands between line 101 and line 102.
C1_NoTornPair ==
  [][(dpc = "update131" /\ dpc' = "refresh132") => lpc # "l102"]_vars

\* C2: once the process has exited, the terminal is in its saved (Normal) mode,
\* whatever path the session took.
C2_TerminalRestoredAtExit == exited => termMode = "Normal"

\* C3: a quit key read by the listener makes running false; from then on the
\* render loop reaches Stopped (dash has returned), having left the live
\* display before the closing notice, printed exactly once; and once the render
\* loop has read running as False it builds no layout and pushes no frame.
C3_QuitStops ==
  /\ [][\A ch \in QuitChars : ReadKey(ch) => ~state'.running]_vars
  /\ ((stateCreated /\ ~state.running) ~> (dpc = "returned"))
  /\ [](~no_interactive =>
          /\ NoticeCount <= 1
          /\ (NoticeCount = 1 => ~live)
          /\ (dpc = "returned" <=> NoticeCount = 1))
  /\ [](observedStop =>
          /\ dpc \in {"reset139", "while130", "exitLive"}
          /\ built = NoLayout)
  /\ [][observedStop => (frame' = frame \/ frame' = NoLayout)]_vars

C3_Witness ==
  /\ dpc = "returned"
  /\ lpc = "done"
  /\ ~state.running
  /\ NoticeCount = 1
  /\ ~live

\* C4: while running stays true, a key that set refresh (r or a digit) is
\* eventually followed by a frame whose build started after the key was
\* processed.
C4_RefreshServed ==
  (tracked # "none") ~> (tracked = "none" \/ ~state.running)

\* C5: in one wait, at most one sleep increment completes with refresh already
\* true or running already false.
C5_AtMostOneSleep == sleepsAfterSignal <= 1

C5_Witness ==
  /\ dpc = "for135"
  /\ sleepsAfterSignal = 1
  /\ state.refresh
  /\ i < WaitTicks(refresh)

\* C6: a --no-interactive run prints one layout, built with focused = 0 (the
\* four panels), creates no state, starts no listener, leaves the terminal
\* mode and the live display alone, and ends with exit code 0.
C6_SingleRender ==
  /\ [](no_interactive =>
          /\ ~stateCreated
          /\ lpc = "idle"
          /\ termMode = "Normal" /\ ~rawEntered
          /\ ~live /\ ~liveEntered
          /\ dpc \in {"entry", "returned"}
          /\ (dpc = "entry" => consoleOut = <<>>)
          /\ (dpc = "returned" =>
                /\ Len(consoleOut) = 1
                /\ consoleOut[1].what = "layout"
                /\ NumPanelRegions(consoleOut[1].layout) = 4
                /\ \E e \in Envs : consoleOut[1].layout = GridLayout(e).layout)
          /\ (exited => exitCode = 0))
  /\ (no_interactive ~> (exited /\ exitCode = 0))

C6_Witness ==
  /\ no_interactive
  /\ exited
  /\ exitCode = 0
  /\ Len(consoleOut) = 1

(***************************************************************************)
(* Properties of _key_listener alone, checked under ListenerSpec.           *)
(***************************************************************************)
\* the whole sequence the simulated reader was given
Fed == consumed \o input

DigitChars == {"0", "1", "2", "3", "4"}

DigitValue(ch) ==
  CASE ch = "0" -> 0
    [] ch = "1" -> 1
    [] ch = "2" -> 2
    [] ch = "3" -> 3
    [] ch = "4" -> 4

\* the position of the first quit key of a sequence, 0 when it has none
FirstQuit(seq) ==
  IF \E j \in 1..Len(seq) : seq[j] \in QuitChars
  THEN CHOOSE j \in 1..Len(seq) :
         /\ seq[j] \in QuitChars
         /\ \A k \in 1..(j - 1) : seq[k] \notin QuitChars
  ELSE 0

\* the value of the last digit key among the first n characters, 0 if none
LastDigit(seq, n) ==
  LET ds == {j \in 1..n : seq[j] \in DigitChars}
  IN IF ds = {} THEN 0
     ELSE DigitValue(seq[CHOOSE j \in ds : \A k \in ds : k <= j])

AsksRefresh(seq, n) == \E j \in 1..n : seq[j] \in DigitChars \cup {"r"}

\* the reader sits on a terminal and was given keystrokes (no end of input)
\* up to a quit key
QuitFed ==
  /\ stdinKind = "tty"
  /\ FirstQuit(Fed) > 0
  /\ \A j \in 1..FirstQuit(Fed) : Fed[j] # EOF

C11_Safe ==
  QuitFed =>
    /\ Len(consumed) <= FirstQuit(Fed)
    /\ lpc \in {"while94", "read95"} =>
         /\ state.refresh = AsksRefresh(consumed, Len(consumed))
         /\ state.focused = LastDigit(consumed, Len(consumed))
    /\ lpc = "done" =>
         /\ Len(consumed) = FirstQuit(Fed)
         /\ state.running = FALSE
         /\ state.focused = LastDigit(Fed, FirstQuit(Fed))
         /\ state.refresh = AsksRefresh(Fed, FirstQuit(Fed))

\* C11: fed a keystroke sequence that holds a quit key, from the initial
\* dict and with no render loop, the listener stops (returns) having read
\* exactly the keys up to the first quit key, with running False and focused
\* the value of the last digit 0-4 read before it (0 if none); refresh is
\* True from the first 'r' or digit read on; no key after the quit key is read.
C11_StopsAtFirstQuit ==
  /\ []C11_Safe
  /\ (QuitFed ~> lpc = "done")

C11_Witness ==
  /\ Fed = << "1", "r", "q" >>
  /\ lpc = "done"
  /\ state = [running |-> FALSE, refresh |-> TRUE, focused |-> 1]

\* C12: reading 'r' changes only refresh, to True; reading a character that
\* is no quit key, not 'r' and no digit 0-4 changes nothing in the dict; in
\* both cases the listener goes back to the loop test with running unchanged,
\* so to the next read.
C12_FrameOfKeys ==
  [][ consumed' # consumed =>
        LET ch == consumed'[Len(consumed')]
        IN /\ ch = "r" =>
                /\ state' = [state EXCEPT !.refresh = TRUE]
                /\ lpc' = "while94"
           /\ (ch \notin QuitChars \cup DigitChars \cup {"r", EOF}) =>
                /\ state' = state
                /\ lpc' = "while94" ]_vars

C12_Witness ==
  /\ Len(consumed) = 2
  /\ consumed[1] = "r"
  /\ consumed[2] \in {"x", "5", "R"}
  /\ lpc = "read95"
  /\ state = [running |-> TRUE, refresh |-> TRUE, focused |-> 0]

\* C13: on a standard input that is no interactive terminal the listener
\* does not raise: it ends up in the idle poll of lines 108-109 (or has
\* returned from it), with the terminal mode and the dict untouched.
C13_NonTtyIdles ==
  stdinKind \in {"noimport", "nofileno", "notty"} =>
    /\ lpc \in {"fallback108", "sleep109", "done"}
    /\ termMode = "Normal"
    /\ ~rawEntered
    /\ state = InitialState

(***************************************************************************)
(* Properties of the panel providers, checked under ProviderSpec.           *)
(***************************************************************************)
ProviderDone == provResult # NoCall

IndexOf(p) == CHOOSE k \in 1..4 : ExpectedProvider(k) = p

\* the border of each provider's normal panel
NormalBorder(p) ==
  CASE p = "collect_devops" -> "blue"
    [] p = "collect_revenue" -> "green"
    [] p = "collect_agents" -> "magenta"
    [] p = "collect_system" -> "cyan"

\* a failure other than a missing tool or a timeout of one probe: a tool
\* that may not be run, settings that do not load, a ledger that cannot be
\* read or understood
HardFailure(p, w) ==
  CASE p = "collect_devops" ->
         "denied" \in {w.git, w.vercel, w.docker}
    [] p = "collect_system" ->
         "denied" \in {w.python3, w.git, w.node}
    [] p = "collect_revenue" ->
         \/ w.config # "ok"
         \/ w.ledger \in {"unreadable", "malformed", "notlist"}
    [] p = "collect_agents" ->
         w.config # "ok"

\* a missing tool or a timeout of one probe
SoftFailure(p, w) ==
  CASE p = "collect_devops" ->
         {w.git, w.vercel, w.docker} \cap {"missing", "timeout"} # {}
    [] p = "collect_system" ->
         {w.python3, w.git, w.node} \cap {"missing", "timeout"} # {}
    [] OTHER -> FALSE

Explanations ==
  {"[dim]Unable to collect DevOps data[/dim]",
   "[dim]Unable to load revenue data[/dim]",
   "[dim]Unable to check agents[/dim]",
   "[dim]Unable to check system[/dim]"}

DimRows == {r \in 1..Len(provResult.rows) :
              provResult.rows[r][2] \in {"[dim]n/a[/dim]",
                                         "[dim]not found[/dim]"}}

\* C14 as stated: whatever fails inside, the provider returns a panel with
\* the title and the border of its normal panel.
C14_SameTitleAndBorder ==
  ProviderDone =>
    /\ provResult.raised = "none"
    /\ provResult.panel.title = ExpectedTitle(IndexOf(provName))
    /\ provResult.panel.border_style = NormalBorder(provName)

\* C14, amended: no provider raises and every panel keeps the provider's
\* title; a failure other than a missing tool or a timeout gives a panel
\* with a one-line explanation and a red border; without such a failure the
\* panel has the normal border, and a missing tool or a timeout shows as a
\* dimmed row of it.
C14_DegradedPanelIsRed ==
  ProviderDone =>
    /\ provResult.raised = "none"
    /\ provResult.panel.title = ExpectedTitle(IndexOf(provName))
    /\ HardFailure(provName, world) =>
         /\ provResult.panel.border_style = "red"
         /\ provResult.panel.renderable \in Explanations
    /\ ~HardFailure(provName, world) =>
         /\ provResult.panel.border_style = NormalBorder(provName)
         /\ provResult.panel.renderable \notin Explanations
         /\ SoftFailure(provName, world) <=> DimRows # {}

C14_Witness ==
  /\ ProviderDone
  /\ provName = "collect_revenue"
  /\ world.ledger = "malformed"
  /\ provResult.raised = "none"
  /\ provResult.panel.title = "[2] Revenue"
  /\ provResult.panel.border_style = "red"

(***************************************************************************)
(* Further properties of the dash command, checked under Spec and FairSpec. *)
(***************************************************************************)
C15_Safe ==
  interrupted =>
    /\ dexc = "none"
    /\ ~live
    /\ dpc \in {"finally143", "returned"}
    /\ NoticeCount = (IF dpc = "returned" THEN 1 ELSE 0)
    /\ exited => exitCode = 0

\* C15: a KeyboardInterrupt raised anywhere in the try block of the
\* interactive session is caught: from then on the loop runs no statement
\* again and the live display is left, no exception leaves dash, and the
\* command goes on to print the notice exactly once and to end with exit
\* code 0.
C15_InterruptCaught ==
  /\ []C15_Safe
  /\ (interrupted ~> (exited /\ exitCode = 0 /\ NoticeCount = 1))

C15_Witness ==
  /\ interrupted
  /\ liveEntered
  /\ exited
  /\ exitCode = 0
  /\ NoticeCount = 1

IsPrefix(s, t) == Len(s) <= Len(t) /\ s = SubSeq(t, 1, Len(s))

\* C16 as stated: in each pass of the loop the layout is built, the frame
\* pushed and the refresh flag cleared, and only then are the flags polled.
C16_ClearBeforeWait ==
  IsPrefix(tick, << "build", "push", "clear", "wait" >>)

\* C16, amended: in each pass of the loop the layout is built, the frame
\* pushed, then the flags are polled (when the refresh interval is not 0),
\* and the refresh flag is cleared last, after the wait has ended.
C16_ClearAfterWait ==
  \/ IsPrefix(tick, << "build", "push", "wait", "clear" >>)
  \/ refresh = 0 /\ tick = << "build", "push", "clear" >>

C16_Witness ==
  /\ tick = << "build", "push", "wait", "clear" >>
  /\ dpc = "while130"
  /\ state.running

\* C17: in an interactive session focused stays in 0..4 and running never
\* goes back to True; a step that changes running or focused, or sets
\* refresh to True, is a step of the listener and not of dash; a step of
\* dash changes the dict at most by setting refresh to False.
C17_WritersOfState ==
  [][ /\ state'.focused \in 0..4
      /\ ~state.running => ~state'.running
      /\ ( \/ state'.running # state.running
           \/ state'.focused # state.focused
           \/ (state'.refresh /\ ~state.refresh) ) =>
           (lpc' # lpc /\ dpc' = dpc /\ exited' = exited)
      /\ (dpc' # dpc \/ exited' # exited) =>
           (state' = state \/ state' = [state EXCEPT !.refresh = FALSE]) ]_vars

C17_Witness ==
  /\ state = [running |-> FALSE, refresh |-> FALSE, focused |-> 4]
  /\ lpc = "done"
  /\ liveEntered
  /\ ~no_interactive

\* C18: once the listener has entered raw mode and has left its read loop by
\* itself, whether the loop test failed or an exception was raised in the
\* loop, the terminal is back in its saved mode when the thread has ended or
\* idles in the fallback loop.
C18_RestoredAfterLoop ==
  (rawEntered /\ lpc \in {"done", "dead", "fallback108", "sleep109"}) =>
    termMode = "Normal"

C18_Witness ==
  /\ rawEntered
  /\ lexc = "OSError"
  /\ lpc = "fallback108"
  /\ termMode = "Normal"

(***************************************************************************)
(* Properties of the command line application, checked under CliSpec.       *)
(***************************************************************************)
Groups == {"devops", "revenue", "marketing", "agents", "system", "market",
           "logs", "recipe"}

Standalone == {"dash", "init", "version"}

\* C19: once main.py has run its registration statements, the eight command
\* groups and the three standalone commands are registered on the application.
C19_AllRegistered ==
  mainpc > Len(Registrations) => (Groups \cup Standalone) \subseteq registered

KnownTargets == {"vercel", "cloudflare", "docker"}

IsDeploy == DOMAIN argv # {"cmd"} /\ argv.cmd = "devops" /\ argv.sub = "deploy"

\* C20: devops deploy with a target other than vercel, cloudflare and docker
\* ends with exit code 1 and has started no external process.
C20_UnknownTarget ==
  (cpc = "done" /\ IsDeploy /\ argv.target \notin KnownTargets) =>
    /\ cliExit = 1
    /\ procs = << >>

C20_Witness ==
  /\ cpc = "done"
  /\ IsDeploy
  /\ argv.target = "unknown-platform"
  /\ argv.exists
  /\ argv.outcome = "ok"
  /\ cliExit = 1
  /\ procs = << >>
  /\ cliOut = << "Deploy Error" >>

(***************************************************************************)
(* Properties of the dash command and of the listener, continued.           *)
(***************************************************************************)
\* the render loop of an interactive session has stopped: dash is in its
\* finally clause or has returned
Stopped == ~no_interactive /\ dpc \in {"finally143", "returned"}

\* C23: whenever the render loop of an interactive session has stopped,
\* running is False, also when a KeyboardInterrupt stopped it, so the test
\* of the listener's loop (line 94 or line 108) fails from then on.
C23_StoppedMeansNotRunning ==
  Stopped => ~state.running

C22_Step ==
  (dpc = "for135" /\ dpc' = "reset139" /\ state.running /\ ~state.refresh)
    => i = refresh * 10

\* C22: between two frames the loop sleeps at most refresh x 10 increments
\* of 0.1 s; it leaves the wait with running still True and refresh still
\* False only after exactly refresh x 10 increments; and once a wait is over
\* the next frame is pushed, unless a quit key or an interrupt ends the loop.
C22_WaitIsBounded ==
  /\ [](i <= refresh * 10)
  /\ [][C22_Step]_vars
  /\ (dpc = "reset139" ~>
        (dpc = "refresh132" \/ ~state.running \/ interrupted))

C22_Witness ==
  /\ refresh = MaxRefresh
  /\ dpc = "reset139"
  /\ tick = << "build", "push", "wait" >>
  /\ state.running
  /\ ~state.refresh
  /\ lpc = "read95"

\* C28: whatever sys.stdin.read(1) returns, the empty string of end of input
\* included, no exception leaves the listener, and focused is the value of
\* the last character among '0'..'4' read (0 if none), so only such a
\* character changes it.
C28_EveryReadHandled ==
  /\ consumed # << >> => (lexc # "ValueError" /\ lpc # "dead")
  /\ state.focused = LastDigit(consumed, Len(consumed))

(***************************************************************************)
(* Properties of the panel providers, continued (ProviderSpec).             *)
(***************************************************************************)
Probing == {"collect_devops", "collect_system"}

\* the other one of the two outcomes
Exchanged(o) == IF o = "missing" THEN "timeout" ELSE "missing"

\* the position of each tool's row in the provider's table
RowOf(p, t) ==
  IF p = "collect_devops"
    THEN CASE t = "git" -> 1 [] t = "vercel" -> 2 [] t = "docker" -> 3
    ELSE CASE t = "python3" -> 1 [] t = "git" -> 2 [] t = "node" -> 3

\* C24: in collect_devops and collect_system, for each probed tool a missing
\* binary and a timeout give the same result (exchanging one for the other
\* changes nothing in what the provider returns), the tool's row is the
\* dimmed one, no exception leaves the provider, and every other tool still
\* has its row.
C24_MissingLikeTimeout ==
  (ProviderDone /\ provName \in Probing) =>
    \A t \in DOMAIN world :
      world[t] \in {"missing", "timeout"} =>
        /\ provResult.raised = "none"
        /\ call(provName, [world EXCEPT ![t] = Exchanged(world[t])])
             = provResult
        /\ "denied" \notin {world[u] : u \in DOMAIN world} =>
             /\ Len(provResult.rows) = 3
             /\ provResult.rows[RowOf(provName, t)][2]
                  \in {"[dim]n/a[/dim]", "[dim]not found[/dim]"}
             /\ provResult.panel.border_style = NormalBorder(provName)

C24_Witness ==
  /\ ProviderDone
  /\ provName = "collect_system"
  /\ world = [python3 |-> "ok", git |-> "timeout", node |-> "missing"]
  /\ provResult.rows = << << "Python", "[green]OK[/green]" >>,
                          << "Git", "[dim]n/a[/dim]" >>,
                          << "Node", "[dim]n/a[/dim]" >> >>

Held(file) == SelectSeq(file.lines, LAMBDA l : l # "")

IsClear(op) == op.op = "clear"

C21_Step ==
  /\ (IsClear(logOp') /\ logOp'.answer # "y") =>
       /\ logFile' = logFile
       /\ logOp'.exit # 0
       /\ logOp'.out = "Aborted."
  /\ ~IsPrefix(Held(logFile), Held(logFile')) =>
       /\ IsClear(logOp')
       /\ logOp'.answer = "y"
  /\ (IsClear(logOp') /\ logOp'.answer = "y"
        /\ << logFile, logOp >>' # << logFile, logOp >>) =>
       /\ Held(logFile') = << >>
       /\ logOp'.count = Len(Held(logFile))
       /\ logOp'.out = "Logs Cleared"
       /\ logOp'.exit = 0

\* C21: a declined `logs clear` aborts and leaves the activity log as it
\* was; a step that removes an entry from the log is a confirmed clear; and
\* a confirmed clear leaves no entry and reports how many entries there were.
C21_ClearOnlyWhenConfirmed == [][C21_Step]_vars

C21_Witness ==
  /\ IsClear(logOp)
  /\ logOp.answer = "n"
  /\ logOp.exit = 1
  /\ Len(Held(logFile)) = 2
  /\ Len(logFile.lines) = MaxLog

\* the last k elements of a sequence
LastN(seq, k) == SubSeq(seq, Len(seq) - k + 1, Len(seq))

Min(a, b) == IF a < b THEN a ELSE b

\* C27: for a log of n entries and a limit >= 0, read(limit) returns the
\* last min(limit, n) entries in the order they were logged.
C27_ReadLastN ==
  (logOp.op = "read" /\ logOp.limit >= 0) =>
    logOp.result = LastN(Held(logFile), Min(logOp.limit, Len(Held(logFile))))

(***************************************************************************)
(* Properties of `recipe run`, checked under RecipeSpec.                    *)
(***************************************************************************)
\* the step did not succeed and does not allow the run to go on
Fatal(step) == step.outcome \in {"nonzero", "timeout", "oserror"}
                 /\ ~step.continue_on_error

RunOver == recipe.kind = "steps" /\ recipe.steps # << >>
             /\ rpc \in {"summary", "done"}

\* C26: the steps run are steps 1, 2, ... of the list in this order, each
\* once; a step that failed with continue_on_error false is the last one
\* run; and when the run is over, every step that was run and did not stop
\* the run is followed by the next step of the list, if there is one.
C26_InOrderUntilFatal ==
  /\ \A k \in 1..Len(executed) : executed[k] = k
  /\ Len(executed) <= Len(recipe.steps)
  /\ \A k \in 1..Len(executed) :
       Fatal(recipe.steps[k]) => k = Len(executed)
  /\ RunOver =>
       \A k \in 1..Len(executed) :
         (~Fatal(recipe.steps[k]) /\ k < Len(recipe.steps))
           => k + 1 <= Len(executed)

C26_Witness ==
  /\ rpc = "done"
  /\ Len(recipe.steps) = 3
  /\ recipe.steps[1] = [outcome |-> "nonzero", continue_on_error |-> TRUE]
  /\ recipe.steps[2] = [outcome |-> "timeout", continue_on_error |-> FALSE]
  /\ executed = << 1, 2 >>

\* C30: when the run of a recipe with at least one step has finished,
\* passed + failed is the number of steps run, at most the number of steps
\* of the recipe; passed counts the steps run that exited with 0; the exit
\* code is 1 exactly when failed > 0, and otherwise it is 0 with the success
\* panel.
C30_CountsAndExit ==
  (rpc = "done" /\ recipe.kind = "steps" /\ recipe.steps # << >>) =>
    /\ passed + failed = Len(executed)
    /\ Len(executed) <= Len(recipe.steps)
    /\ passed = Cardinality({k \in 1..Len(executed) :
                               recipe.steps[executed[k]].outcome = "ok"})
    /\ (rExit = 1) <=> (failed > 0)
    /\ failed = 0 => (rExit = 0 /\ rOut = "success:Recipe Complete")

C30_Witness ==
  /\ rpc = "done"
  /\ Len(recipe.steps) = 3
  /\ recipe.steps[2] = [outcome |-> "oserror", continue_on_error |-> TRUE]
  /\ executed = << 1, 2, 3 >>
  /\ passed = 2
  /\ failed = 1
  /\ rExit = 1

(***************************************************************************)
(* Properties of `revenue add`, checked under RevenueSpec.                  *)
(***************************************************************************)
\* C29: after revenue add, whatever the ledger file was before (absent, a
\* valid list, damaged or unreadable), the ledger holds the transactions it
\* held before, in the same order, followed by exactly the new one.
C29_AddKeepsEntries ==
  addOp.op = "add" =>
    ledger.entries = Append(addOp.before.entries, addOp.amount)

====
